---- MODULE Spec2Model ----
(***************************************************************************)
(* Model of the download queue of deeznuts-downloader (src/downloader.rs): *)
(* the Downloader facade, the per-request dispatch tasks download_song and *)
(* download_album, the pool of DOWNLOAD_THREADS worker tasks, the job      *)
(* channel (download_tx / download_rx) and the progress channel            *)
(* (progress_tx / progress_rx).                                            *)
(*                                                                         *)
(* Every task is a tokio task.  A task that awaits gives its executor      *)
(* thread back; a worker that calls the crossbeam recv() keeps its thread  *)
(* until recv() returns.  The number of executor threads is a parameter of *)
(* the run (tokio's default is the number of cores).                       *)
(***************************************************************************)
EXTENDS Naturals, Sequences, FiniteSets, Bags

\* ------------------------------------------------------------------ bounds
\* Largest number of executor threads considered.
MaxThreads == 5
\* Largest number of requests the user makes in one run.
MaxRequests == 2
\* Largest number of jobs the requests of one run can create.
MaxJobs == 2
\* Longest file name enumerated, in characters.
MaxLen == 3
\* Largest number of times a file name is passed through the sanitizer.
MaxCalls == 2

\* --------------------------------------------------------------- constants
DOWNLOAD_THREADS == 4

\* ----------------------------------------------------------------- catalog
\* The remote catalog behind DeezerClient: tracks 1..4 exist, track 2 is not
\* readable; album 1 is one disc <<1, 2>>, album 2 is two discs of one track
\* each, <<3>> then <<4>>.  Identifier 0 exists in neither namespace.
SongIds == {0, 1, 2}
AlbumIds == {0, 1, 2}

Requests ==
  [kind : {"Song"}, id : SongIds] \cup [kind : {"Album"}, id : AlbumIds]

\* The sequences over S of length at most n.
RECURSIVE SeqsUpTo(_, _)
SeqsUpTo(S, n) ==
  IF n = 0 THEN {<<>>}
  ELSE LET shorter == SeqsUpTo(S, n - 1)
       IN shorter \cup {Append(q, x) : q \in shorter, x \in S}

TrackExists(id) == id \in {1, 2, 3, 4}

Readable(id) == id \in {1, 3, 4}

AlbumExists(id) == id \in {1, 2}

AlbumTracks(id) ==
  CASE id = 1 -> <<1, 2>>
    [] id = 2 -> <<3, 4>>
    [] OTHER -> <<>>

\* The disc a track is on, and the position the catalog gives it, which
\* starts over on every disc.
DiskNumber(id) == IF id = 4 THEN 2 ELSE 1

CatalogPosition(id) == IF id = 2 THEN 2 ELSE 1

\* The jobs a request creates when nothing fails.
JobsOf(r) ==
  IF r.kind = "Song"
    THEN IF TrackExists(r.id) /\ Readable(r.id) THEN 1 ELSE 0
    ELSE Len(AlbumTracks(r.id))

RECURSIVE TotalJobs(_)
TotalJobs(q) == IF q = <<>> THEN 0 ELSE JobsOf(Head(q)) + TotalJobs(Tail(q))

\* The runs considered: at most MaxRequests requests that create at most
\* MaxJobs jobs.
Scenarios ==
  {q \in SeqsUpTo(Requests, MaxRequests) : TotalJobs(q) <= MaxJobs}

\* A burst of requests that creates more jobs than there are workers.
Burst ==
  <<[kind |-> "Album", id |-> 1], [kind |-> "Album", id |-> 2],
    [kind |-> "Song", id |-> 1]>>

\* Outcome of an awaited catalog call: Ok(..) or Err(..).
Outcomes == {"ok", "err"}

\* ------------------------------------------------------------------- state
VARIABLES
  threads,      \* number of executor threads of the runtime
  pool,         \* the worker tasks: the bag of their states [pc, track]
  download_q,   \* the job channel: tracks sent on download_tx, not yet received
  progress,     \* the DownloadProgress events sent on progress_tx, in order
  sent,         \* the bag of the DownloadProgress events sent on progress_tx
  pushed,       \* the bag of the tracks sent on download_tx
  tasks,        \* the dispatch tasks spawned by request_download, in order
  todo,         \* the requests the user is still going to make, in order
  reader,       \* whether the owner of the Downloader receives from progress_rx
  queue,        \* App.queue: the QueueItems [song, status] of the consumer
  logs,         \* App.logs: the LogEntry values of the consumer
  received,     \* the number of events the consumer has taken from progress_rx
  app_pc,       \* the consumer: "running", or "panicked" in update_progress
  song_title,   \* write_song_to_file: the name given to replace_illegal_characters
  out           \* the results of replace_illegal_characters, call after call

\* The state of the consumer (App) and of the file name being written.
app == <<queue, logs, received, app_pc>>

file == <<song_title, out>>

vars ==
  <<threads, pool, download_q, progress, sent, pushed, tasks, todo, reader,
    app, file>>

NoTrack == [id |-> 0, pos |-> 0, req |-> 0]

Track(id, pos, req) == [id |-> id, pos |-> pos, req |-> req]

Event(type, track) ==
  [type |-> type, id |-> track.id, pos |-> track.pos, req |-> track.req]

\* progress_tx.send(event): the event is the newest of the channel.  With no
\* reader the events stay in the channel and nothing looks at their order; the
\* bag of them is kept all the same.
Send(event) ==
  /\ sent' = sent (+) SetToBag({event})
  /\ progress' = IF reader THEN Append(progress, event) ELSE progress

\* download_tx.send(track): the track is the newest job of the channel.
Push(track) ==
  /\ download_q' = Append(download_q, track)
  /\ pushed' = pushed (+) SetToBag({track})

\* ----------------------------------------------------------------- workers
\* The loop of Downloader::new spawns DOWNLOAD_THREADS worker tasks that run
\* the same code on equal clones of the channel ends and have no name: the
\* pool is the bag of the places they are at.
WorkerAt(pc, track) == [pc |-> pc, track |-> track]

\* The number of workers at one of the places pcs.
NumAt(pcs) ==
  BagCardinality([st \in {x \in BagToSet(pool) : x.pc \in pcs} |-> pool[st]])

\* ----------------------------------------------------------------- threads
\* A worker holds its thread while it runs or is blocked in recv(); it gives
\* the thread back while it awaits DeezerDownloader::new() or the download.
\* A dispatch task holds a thread between its two sends.
TaskHolds(t) ==
  \/ tasks[t].pc = "push"
  \/ \E i \in DOMAIN tasks[t].members : tasks[t].members[i] = "push"

Held ==
  NumAt({"recv", "start"}) + Cardinality({t \in DOMAIN tasks : TaskHolds(t)})

FreeThread == Held < threads

\* The receivers of the job channel are the clones the worker tasks own; the
\* original download_rx is dropped when Downloader::new returns.
LiveReceivers == NumAt({"init", "recv", "start", "fetch", "hung"})

\* ------------------------------------------------------------------- Init
\* The state Downloader::new leaves: the workers spawned and not yet polled,
\* both channels empty.
Constructed ==
  /\ threads \in 1..MaxThreads
  /\ pool = [st \in {WorkerAt("init", NoTrack)} |-> DOWNLOAD_THREADS]
  /\ download_q = <<>>
  /\ progress = <<>>
  /\ sent = EmptyBag
  /\ pushed = EmptyBag
  /\ tasks = <<>>

\* App::new before the first update_progress, and no file name at hand.
AppNew ==
  /\ queue = <<>>
  /\ logs = <<>>
  /\ received = 0
  /\ app_pc = "running"

NoFile ==
  /\ song_title = <<>>
  /\ out = <<>>

Init ==
  /\ Constructed
  /\ todo \in Scenarios
  /\ reader = TRUE
  /\ AppNew
  /\ NoFile

\* The runs of a single request.
FairInit ==
  /\ Constructed
  /\ todo \in {q \in Scenarios : Len(q) = 1}
  /\ reader = TRUE
  /\ AppNew
  /\ NoFile

BurstInit ==
  /\ Constructed
  /\ todo = Burst
  /\ reader = FALSE
  /\ AppNew
  /\ NoFile

\* ---------------------------------------------------------------- requests
\* request_download: spawns the dispatch task of the request and returns.
request_download ==
  /\ todo # <<>>
  /\ tasks' = Append(tasks,
                [kind |-> Head(todo).kind, id |-> Head(todo).id,
                 pc |-> "lookup", lookup |-> "pending", members |-> <<>>])
  /\ todo' = Tail(todo)
  /\ UNCHANGED <<app, file, threads, pool, download_q, progress, sent, pushed, reader>>

\* A dispatch task is [kind, id, pc, lookup, members]: pc is the place the
\* task is at, lookup the outcome of its awaited catalog call once it has
\* returned, members the place each member future of an Album task is at.
SetTask(t, pc, members) ==
  tasks' = [tasks EXCEPT ![t] = [@ EXCEPT !.pc = pc, !.members = members]]

Looked(t, res, pc, members) ==
  tasks' = [tasks EXCEPT ![t] =
              [@ EXCEPT !.pc = pc, !.lookup = res, !.members = members]]

\* ----------------------------------------------------------- download_song
\* The track a Song request resolves to, as the catalog describes it.
SongTrack(t) == Track(tasks[t].id, CatalogPosition(tasks[t].id), t)

\* SongResolve with the job handed to the workers unannounced: no Queue sent.
SongResolve_Unannounced(t, res) ==
  /\ tasks[t].kind = "Song"
  /\ tasks[t].pc = "lookup"
  /\ FreeThread
  /\ IF res = "ok" /\ TrackExists(tasks[t].id) /\ Readable(tasks[t].id)
       THEN /\ Push(SongTrack(t))
            /\ Looked(t, res, "done", <<>>)
            /\ UNCHANGED <<progress, sent>>
       ELSE /\ Send(Event("SongNotFoundError", Track(tasks[t].id, 0, t)))
            /\ Looked(t, res, "done", <<>>)
            /\ UNCHANGED <<download_q, pushed>>
  /\ UNCHANGED <<app, file, threads, pool, todo, reader>>

\* SongResolve without the test of the readable flag.
SongResolve_AnyTrack(t, res) ==
  /\ tasks[t].kind = "Song"
  /\ tasks[t].pc = "lookup"
  /\ FreeThread
  /\ IF res = "ok" /\ TrackExists(tasks[t].id)
       THEN /\ Send(Event("Queue", SongTrack(t)))
            /\ Looked(t, res, "push", <<>>)
       ELSE /\ Send(Event("SongNotFoundError", Track(tasks[t].id, 0, t)))
            /\ Looked(t, res, "done", <<>>)
  /\ UNCHANGED <<app, file, threads, pool, download_q, pushed, todo, reader>>

\* client.track(id).await returned: found and readable sends Queue, anything
\* else (Ok(None), Err, not readable) sends SongNotFoundError.
SongResolve(t, res) ==
  /\ tasks[t].kind = "Song"
  /\ tasks[t].pc = "lookup"
  /\ FreeThread
  /\ IF res = "ok" /\ TrackExists(tasks[t].id) /\ Readable(tasks[t].id)
       THEN /\ Send(Event("Queue", SongTrack(t)))
            /\ Looked(t, res, "push", <<>>)
       ELSE /\ Send(Event("SongNotFoundError", Track(tasks[t].id, 0, t)))
            /\ Looked(t, res, "done", <<>>)
  /\ UNCHANGED <<app, file, threads, pool, download_q, pushed, todo, reader>>

\* download_tx.send(track).expect("Channel should be open."): the send fails,
\* and the task panics, when no receiver of the job channel is left.
SongPush(t) ==
  /\ tasks[t].kind = "Song"
  /\ tasks[t].pc = "push"
  /\ IF LiveReceivers > 0
       THEN /\ Push(SongTrack(t))
            /\ SetTask(t, "done", <<>>)
       ELSE /\ SetTask(t, "panicked", <<>>)
            /\ UNCHANGED <<download_q, pushed>>
  /\ UNCHANGED <<app, file, threads, pool, progress, sent, todo, reader>>

\* ---------------------------------------------------------- download_album
\* MemberTrack with the position counted when the member's get_full()
\* returns: one more than the members of the request that returned before.
MemberTrack_CompletionOrder(t, i) ==
  Track(AlbumTracks(tasks[t].id)[i],
        Cardinality({j \in DOMAIN tasks[t].members \ {i} :
                       tasks[t].members[j] # "pending"}) + 1,
        t)

\* MemberTrack with the position the catalog gives left in place.
MemberTrack_CatalogPosition(t, i) ==
  Track(AlbumTracks(tasks[t].id)[i], CatalogPosition(AlbumTracks(tasks[t].id)[i]), t)

\* x.track_position_in_album = (index + 1), index counted from 0 over the
\* whole listing of the album.
track_position_in_album(index) == index + 1

\* The track member i (counted from 1) of an Album request resolves to.
MemberTrack(t, i) ==
  Track(AlbumTracks(tasks[t].id)[i], track_position_in_album(i - 1), t)

\* AlbumResolve without its else branch: a missing album is passed over.
AlbumResolve_Silent(t, res) ==
  /\ tasks[t].kind = "Album"
  /\ tasks[t].pc = "lookup"
  /\ FreeThread
  /\ IF res = "ok" /\ AlbumExists(tasks[t].id)
       THEN Looked(t, res, "fanout",
                 [i \in 1..Len(AlbumTracks(tasks[t].id)) |-> "pending"])
       ELSE Looked(t, res, "done", <<>>)
  /\ UNCHANGED <<app, file, threads, pool, download_q, progress, sent, pushed, todo, reader>>

\* client.album(id).await returned: a found album starts one future per
\* listed track; anything else sends AlbumNotFoundError.
AlbumResolve(t, res) ==
  /\ tasks[t].kind = "Album"
  /\ tasks[t].pc = "lookup"
  /\ FreeThread
  /\ IF res = "ok" /\ AlbumExists(tasks[t].id)
       THEN /\ Looked(t, res, "fanout",
                 [i \in 1..Len(AlbumTracks(tasks[t].id)) |-> "pending"])
            /\ UNCHANGED <<progress, sent>>
       ELSE /\ Send(Event("AlbumNotFoundError", Track(tasks[t].id, 0, t)))
            /\ Looked(t, res, "done", <<>>)
  /\ UNCHANGED <<app, file, threads, pool, download_q, pushed, todo, reader>>

\* get_full() of member i returned, in any order among the members: Ok sends
\* Queue for the member, Err panics ("Track should always be available.")
\* and takes the whole task, with the members still pending, down.
MemberResolve(t, i, res) ==
  /\ tasks[t].kind = "Album"
  /\ tasks[t].pc = "fanout"
  /\ i \in DOMAIN tasks[t].members
  /\ tasks[t].members[i] = "pending"
  /\ ~TaskHolds(t)
  /\ FreeThread
  /\ IF res = "ok"
       THEN /\ Send(Event("Queue", MemberTrack(t, i)))
            /\ SetTask(t, "fanout", [tasks[t].members EXCEPT ![i] = "push"])
       ELSE /\ SetTask(t, "panicked", [tasks[t].members EXCEPT ![i] = "failed"])
            /\ UNCHANGED <<progress, sent>>
  /\ UNCHANGED <<app, file, threads, pool, download_q, pushed, todo, reader>>

\* download_tx.send(track) of member i, right after its Queue.
MemberPush(t, i) ==
  /\ tasks[t].kind = "Album"
  /\ tasks[t].pc = "fanout"
  /\ i \in DOMAIN tasks[t].members
  /\ tasks[t].members[i] = "push"
  /\ IF LiveReceivers > 0
       THEN LET ms == [tasks[t].members EXCEPT ![i] = "done"]
            IN /\ Push(MemberTrack(t, i))
               /\ SetTask(t,
                    IF \A j \in DOMAIN ms : ms[j] = "done"
                      THEN "done" ELSE "fanout",
                    ms)
       ELSE /\ SetTask(t, "panicked", [tasks[t].members EXCEPT ![i] = "lost"])
            /\ UNCHANGED <<download_q, pushed>>
  /\ UNCHANGED <<app, file, threads, pool, progress, sent, todo, reader>>

\* ------------------------------------------------------------ worker loop
\* One worker goes from the place from to the place to.
Move(from, to) ==
  /\ BagIn(from, pool)
  /\ pool' = (pool (-) SetToBag({from})) (+) SetToBag({to})

\* DeezerDownloader::new().await.unwrap(): Ok enters the loop and calls
\* recv(); Err panics and ends the worker, dropping its receiver.
WorkerInit(res) ==
  /\ FreeThread
  /\ Move(WorkerAt("init", NoTrack),
          WorkerAt(IF res = "ok" THEN "recv" ELSE "dead", NoTrack))
  /\ UNCHANGED <<app, file, threads, download_q, progress, sent, pushed, tasks, todo, reader>>

\* WorkerRecv that takes the newest job of the channel.
WorkerRecv_Newest ==
  /\ download_q # <<>>
  /\ Move(WorkerAt("recv", NoTrack), WorkerAt("start", download_q[Len(download_q)]))
  /\ download_q' = SubSeq(download_q, 1, Len(download_q) - 1)
  /\ UNCHANGED <<app, file, threads, progress, sent, pushed, tasks, todo, reader>>

\* WorkerRecv that reads the oldest job and leaves it in the channel.
WorkerRecv_Peek ==
  /\ download_q # <<>>
  /\ Move(WorkerAt("recv", NoTrack), WorkerAt("start", Head(download_q)))
  /\ UNCHANGED <<app, file, threads, download_q, progress, sent, pushed, tasks, todo, reader>>

\* _download_rx.recv() returns the oldest job of the channel; it blocks, on
\* the worker's thread, while the channel is empty.
WorkerRecv ==
  /\ download_q # <<>>
  /\ Move(WorkerAt("recv", NoTrack), WorkerAt("start", Head(download_q)))
  /\ download_q' = Tail(download_q)
  /\ UNCHANGED <<app, file, threads, progress, sent, pushed, tasks, todo, reader>>

\* WorkerStart that does not await the download: it goes back to recv().
WorkerStart_Detached(track) ==
  /\ Move(WorkerAt("start", track), WorkerAt("recv", NoTrack))
  /\ Send(Event("Start", track))
  /\ UNCHANGED <<app, file, threads, download_q, pushed, tasks, todo, reader>>

\* Sends Start(track) and awaits download_song_from_track.
WorkerStart(track) ==
  /\ Move(WorkerAt("start", track), WorkerAt("fetch", track))
  /\ Send(Event("Start", track))
  /\ UNCHANGED <<app, file, threads, download_q, pushed, tasks, todo, reader>>

\* WorkerFinish that puts the job of a failed download back in the channel.
WorkerFinish_Retry(track, res) ==
  /\ FreeThread
  /\ Move(WorkerAt("fetch", track), WorkerAt("recv", NoTrack))
  /\ Send(Event(IF res = "ok" THEN "Finish" ELSE "DownloadError", track))
  /\ IF res = "ok" THEN UNCHANGED <<download_q, pushed>> ELSE Push(track)
  /\ UNCHANGED <<app, file, threads, tasks, todo, reader>>

\* WorkerFinish with the result of the download unwrapped: Err panics and
\* ends the worker after its DownloadError.
WorkerFinish_Unwrap(track, res) ==
  /\ FreeThread
  /\ Move(WorkerAt("fetch", track),
          WorkerAt(IF res = "ok" THEN "recv" ELSE "dead", NoTrack))
  /\ Send(Event(IF res = "ok" THEN "Finish" ELSE "DownloadError", track))
  /\ UNCHANGED <<app, file, threads, download_q, pushed, tasks, todo, reader>>

\* download_song_from_track returned: Ok sends Finish, Err sends
\* DownloadError; the worker loops to recv().
WorkerFinish(track, res) ==
  /\ FreeThread
  /\ Move(WorkerAt("fetch", track), WorkerAt("recv", NoTrack))
  /\ Send(Event(IF res = "ok" THEN "Finish" ELSE "DownloadError", track))
  /\ UNCHANGED <<app, file, threads, download_q, pushed, tasks, todo, reader>>

\* download_song_from_track(..).await that never returns: the worker stays at
\* the await, off its thread, with its track and its receiver.
WorkerHang(track) ==
  /\ Move(WorkerAt("fetch", track), WorkerAt("hung", track))
  /\ UNCHANGED <<app, file, threads, download_q, progress, sent, pushed, tasks,
                 todo, reader>>

\* The tracks the workers hold.
Held_tracks == {st.track : st \in BagToSet(pool)}

\* -------------------------------------------------------------------- Next
Resolve(t) ==
  \/ \E res \in Outcomes : SongResolve(t, res)
  \/ \E res \in Outcomes : AlbumResolve(t, res)
  \/ \E i \in DOMAIN tasks[t].members, res \in Outcomes : MemberResolve(t, i, res)

Enqueue(t) ==
  \/ SongPush(t)
  \/ \E i \in DOMAIN tasks[t].members : MemberPush(t, i)

Dispatch == \E t \in DOMAIN tasks : Resolve(t) \/ Enqueue(t)

Work ==
  \/ \E res \in Outcomes : WorkerInit(res)
  \/ WorkerRecv
  \/ \E tr \in Held_tracks : WorkerStart(tr)
  \/ \E tr \in Held_tracks, res \in Outcomes : WorkerFinish(tr, res)

Next == request_download \/ Dispatch \/ Work

Spec == Init /\ [][Next]_vars

BurstSpec == BurstInit /\ [][Next]_vars

\* Every awaited call returns and a task that can run on a free executor
\* thread is run.  Every run of the model ends, so fairness of the steps of
\* the tasks taken together is fairness of each.
FairSpec == FairInit /\ [][Next]_vars /\ WF_vars(Dispatch \/ Work)

\* A download may hang.
Hang == \E tr \in Held_tracks : WorkerHang(tr)

HangNext == Next \/ Hang

\* FairSpec with downloads that may hang: no fairness makes a hung download
\* return.
HangSpec == FairInit /\ [][HangNext]_vars /\ WF_vars(Dispatch \/ Work)

\* -------------------------------------------------------------- file names
\* A string is the sequence of its characters.
ILLEGAL_CHARACTERS == <<"<", ">", ":", "\"", "/", "\\", "|", "?", "*">>

\* ILLEGAL_CHARACTERS.contains(char)
contains(array, char) == \E i \in DOMAIN array : array[i] = char

\* The characters the enumerated names are made of: the illegal ones and
\* three that are legal.
Chars == {ILLEGAL_CHARACTERS[i] : i \in DOMAIN ILLEGAL_CHARACTERS} \cup {"A", " ", "."}

\* The two names of the test replaces_invalid_chars.
ThunderstruckName ==
  <<"A", "C", "/", "D", "C", " ", "-", " ", "T", "h", "u", "n", "d", "e", "r",
    "s", "t", "r", "u", "c", "k", ".", "m", "p", "3">>

TestName ==
  <<"<", ">", ":", "\"", "/", "\\", "|", "?", "*", " ", "-", " ", "T", "e",
    "s", "t", ".", "m", "p", "3">>

FileNames == SeqsUpTo(Chars, MaxLen) \cup {ThunderstruckName, TestName}

\* replace_illegal_characters that puts an underscore for an illegal character.
replace_illegal_characters_Underscore(name) ==
  [i \in DOMAIN name |->
     IF contains(ILLEGAL_CHARACTERS, name[i]) THEN "_" ELSE name[i]]

\* replace_illegal_characters that drops the first illegal character only.
replace_illegal_characters_First(name) ==
  IF \E i \in DOMAIN name : contains(ILLEGAL_CHARACTERS, name[i])
    THEN LET first == CHOOSE i \in DOMAIN name :
                        /\ contains(ILLEGAL_CHARACTERS, name[i])
                        /\ \A j \in 1..(i - 1) : ~contains(ILLEGAL_CHARACTERS, name[j])
         IN SubSeq(name, 1, first - 1) \o SubSeq(name, first + 1, Len(name))
    ELSE name

\* str.chars().filter(|char| !ILLEGAL_CHARACTERS.contains(char)).collect()
replace_illegal_characters(name) ==
  SelectSeq(name, LAMBDA char : ~contains(ILLEGAL_CHARACTERS, char))

\* One call of replace_illegal_characters, on the name or on what the call
\* before returned.
Sanitize ==
  /\ Len(out) < MaxCalls
  /\ out' = Append(out, replace_illegal_characters(
                          IF out = <<>> THEN song_title ELSE out[Len(out)]))
  /\ UNCHANGED <<app, song_title, threads, pool, download_q, progress, sent,
                 pushed, tasks, todo, reader>>

\* No request is made; a name is at hand.
SanitizeInit ==
  /\ Constructed
  /\ threads = DOWNLOAD_THREADS
  /\ todo = <<>>
  /\ reader = FALSE
  /\ AppNew
  /\ song_title \in FileNames
  /\ out = <<>>

SanitizeSpec == SanitizeInit /\ [][Sanitize]_vars

\* ---------------------------------------------------------------- consumer
\* DownloadStatus
Inactive == "Inactive"

Downloading == "Downloading"

\* The track an event carries.
TrackOf(event) == Track(event.id, event.pos, event.req)

QueueItem(song, status) == [song |-> song, status |-> status]

\* LogEntry::Success(text) and LogEntry::Error(text); the text is the format
\* string and the value put in it.
LogEntry(kind, text, id) == [kind |-> kind, text |-> text, id |-> id]

\* get_log_from_progress: None is the empty sequence, Some(x) is <<x>>.
get_log_from_progress(download_progress) ==
  CASE download_progress.type \in {"Queue", "Start"} -> <<>>
    [] download_progress.type = "Finish" ->
         <<LogEntry("Success", "Song with id {} downloaded.", download_progress.id)>>
    [] download_progress.type = "DownloadError" ->
         <<LogEntry("Error", "Error while downloading song with id {}.",
                    download_progress.id)>>
    [] download_progress.type = "SongNotFoundError" ->
         <<LogEntry("Error", "Song with id {} was not found.", download_progress.id)>>
    [] download_progress.type = "AlbumNotFoundError" ->
         <<LogEntry("Error", "Album with id {} was not found.", download_progress.id)>>

\* self.queue.iter().position(|x| x.song.id == id): the first place, or 0 for
\* None.
position(id) ==
  IF \E i \in DOMAIN queue : queue[i].song.id = id
    THEN CHOOSE i \in DOMAIN queue :
           /\ queue[i].song.id = id
           /\ \A j \in 1..(i - 1) : queue[j].song.id # id
    ELSE 0

\* self.queue.remove(pos)
remove(pos) == SubSeq(queue, 1, pos - 1) \o SubSeq(queue, pos + 1, Len(queue))

\* update_progress_match whose Finish and DownloadError remove every item of
\* the id, as Start marks every item of the id.
update_progress_match_RemoveAll(progress_event) ==
  CASE progress_event.type = "Queue" ->
         /\ queue' = Append(queue, QueueItem(TrackOf(progress_event), Inactive))
         /\ app_pc' = app_pc
    [] progress_event.type = "Start" ->
         /\ queue' = [i \in DOMAIN queue |->
                        IF queue[i].song.id = progress_event.id
                          THEN QueueItem(queue[i].song, Downloading)
                          ELSE queue[i]]
         /\ app_pc' = app_pc
    [] progress_event.type \in {"Finish", "DownloadError"} ->
         IF position(progress_event.id) = 0
           THEN /\ app_pc' = "panicked"
                /\ queue' = queue
           ELSE /\ queue' = SelectSeq(queue, LAMBDA x : x.song.id # progress_event.id)
                /\ app_pc' = app_pc
    [] OTHER ->
         /\ queue' = queue
         /\ app_pc' = app_pc

\* update_progress_match that keeps a finished item in the queue.
update_progress_match_KeepFinished(progress_event) ==
  CASE progress_event.type = "Queue" ->
         /\ queue' = Append(queue, QueueItem(TrackOf(progress_event), Inactive))
         /\ app_pc' = app_pc
    [] progress_event.type = "Start" ->
         /\ queue' = [i \in DOMAIN queue |->
                        IF queue[i].song.id = progress_event.id
                          THEN QueueItem(queue[i].song, Downloading)
                          ELSE queue[i]]
         /\ app_pc' = app_pc
    [] progress_event.type \in {"Finish", "DownloadError"} ->
         IF position(progress_event.id) = 0
           THEN /\ app_pc' = "panicked"
                /\ queue' = queue
           ELSE /\ queue' = IF progress_event.type = "Finish"
                              THEN queue
                              ELSE remove(position(progress_event.id))
                /\ app_pc' = app_pc
    [] OTHER ->
         /\ queue' = queue
         /\ app_pc' = app_pc

\* The match of update_progress on one event: Queue pushes an Inactive item,
\* Start sets every item of that id to Downloading, Finish and DownloadError
\* remove the first item of that id and panic ("Track should be in queue.")
\* when there is none, the two not-found events do nothing.
update_progress_match(progress_event) ==
  CASE progress_event.type = "Queue" ->
         /\ queue' = Append(queue, QueueItem(TrackOf(progress_event), Inactive))
         /\ app_pc' = app_pc
    [] progress_event.type = "Start" ->
         /\ queue' = [i \in DOMAIN queue |->
                        IF queue[i].song.id = progress_event.id
                          THEN QueueItem(queue[i].song, Downloading)
                          ELSE queue[i]]
         /\ app_pc' = app_pc
    [] progress_event.type \in {"Finish", "DownloadError"} ->
         IF position(progress_event.id) = 0
           THEN /\ app_pc' = "panicked"
                /\ queue' = queue
           ELSE /\ queue' = remove(position(progress_event.id))
                /\ app_pc' = app_pc
    [] OTHER ->
         /\ queue' = queue
         /\ app_pc' = app_pc

\* One turn of the loop of update_progress: try_recv() takes the oldest event
\* not yet taken, its log entry is pushed, then the match.  The senders run
\* between two turns, and the loop ends when the channel is found empty: a
\* call is a run of such turns.
update_progress ==
  /\ app_pc = "running"
  /\ reader
  /\ received < Len(progress)
  /\ received' = received + 1
  /\ logs' = logs \o get_log_from_progress(progress[received + 1])
  /\ update_progress_match(progress[received + 1])
  /\ UNCHANGED <<file, threads, pool, download_q, progress, sent, pushed, tasks,
                 todo, reader>>

\* The runs of Init on a runtime with more threads than workers, where no
\* step of a task waits for a thread that a worker holds.
AppInit ==
  /\ Init
  /\ threads = MaxThreads

AppNext == Next \/ update_progress

AppSpec == AppInit /\ [][AppNext]_vars

\* The runs in which one identifier is queued more than once: a song
\* requested twice, and a song that is also the first member of an album.
SharedIdRuns ==
  {<<[kind |-> "Song", id |-> 1], [kind |-> "Song", id |-> 1]>>,
   <<[kind |-> "Album", id |-> 1], [kind |-> "Song", id |-> 1]>>,
   <<[kind |-> "Song", id |-> 1], [kind |-> "Album", id |-> 1]>>}

SharedIdInit ==
  /\ Constructed
  /\ threads = MaxThreads
  /\ todo \in SharedIdRuns
  /\ reader = TRUE
  /\ AppNew
  /\ NoFile

SharedIdSpec == SharedIdInit /\ [][AppNext]_vars

\* ------------------------------------------------------------- observation
Terminal == {"Finish", "DownloadError"}

ItemEvents == {"Queue", "Start", "Finish", "DownloadError"}

\* The number of events sent so far that pass Test.
CountSent(Test(_)) ==
  BagCardinality([e \in {x \in BagToSet(sent) : Test(x)} |-> sent[e]])

\* The number of events of one of the types sent so far for track tr.
NumSent(types, tr) ==
  CountSent(LAMBDA e : e.type \in types /\ e = Event(e.type, tr))

\* The number of events of one of the types sent so far by or for request t.
NumOfRequest(types, t) ==
  CountSent(LAMBDA e : e.type \in types /\ e.req = t)

\* The number of the first k events of the channel of one of the types that
\* carry identifier id.
NumInPrefix(types, id, k) ==
  Cardinality({j \in 1..k : progress[j].type \in types /\ progress[j].id = id})

\* The number of jobs for track tr waiting in the job channel.
NumQueued(tr) == Cardinality({j \in DOMAIN download_q : download_q[j] = tr})

\* The tracks of the jobs that are in the job channel or with a worker.
InChannelOrFlight ==
  {download_q[j] : j \in DOMAIN download_q} \cup (Held_tracks \ {NoTrack})

IsSong(t) == t \in DOMAIN tasks /\ tasks[t].kind = "Song"

IsAlbum(t) == t \in DOMAIN tasks /\ tasks[t].kind = "Album"

\* ---------------------------------------------------------------------- C2
\* C2: in the channel, the Start of an item comes after the Queue of that
\* item and its Finish or DownloadError after its Start; so among the first k
\* events, for every k and every identifier, there are at least as many Queue
\* as Start and at least as many Start as terminal events.
C2_QueueStartTerminalOrder ==
  /\ \A k \in DOMAIN progress :
       /\ progress[k].type = "Start" =>
            \E j \in 1..(k - 1) : progress[j] = [progress[k] EXCEPT !.type = "Queue"]
       /\ progress[k].type \in Terminal =>
            \E j \in 1..(k - 1) : progress[j] = [progress[k] EXCEPT !.type = "Start"]
  /\ \A k \in DOMAIN progress :
       LET id == progress[k].id
       IN /\ NumInPrefix({"Start"}, id, k) <= NumInPrefix({"Queue"}, id, k)
          /\ NumInPrefix(Terminal, id, k) <= NumInPrefix({"Start"}, id, k)

\* Two items whose events interleave: the one queued second is started first,
\* and both have reached their terminal event.
C2_Witness ==
  \E a, b, c, d \in DOMAIN progress :
    /\ a < b /\ b < c /\ c < d
    /\ progress[a].type = "Queue" /\ progress[b].type = "Queue"
    /\ progress[c] = [progress[b] EXCEPT !.type = "Start"]
    /\ progress[d] = [progress[a] EXCEPT !.type = "Start"]
    /\ progress[a] # progress[b]
    /\ \E x, y \in DOMAIN progress :
         /\ progress[x].type \in Terminal /\ progress[y].type \in Terminal
         /\ x # y

\* ---------------------------------------------------------------------- C3
\* A Song request whose lookup has returned without a readable track.
SongFailed(t) ==
  /\ IsSong(t)
  /\ tasks[t].lookup # "pending"
  /\ \/ tasks[t].lookup = "err"
     \/ ~TrackExists(tasks[t].id)
     \/ ~Readable(tasks[t].id)

\* The events sent by or for request t, as a bag.
EventsOf(t) == [e \in {x \in BagToSet(sent) : x.req = t} |-> sent[e]]

\* The jobs of request t, wherever they are.
JobsOfRequest(t) ==
  {tr \in BagToSet(pushed) \cup InChannelOrFlight : tr.req = t}

\* C3: a Song request whose identifier is not found, whose lookup fails or
\* whose track is not readable has sent exactly one SongNotFoundError(id) and
\* nothing else, and has no job anywhere.
C3_SongNotFound ==
  \A t \in DOMAIN tasks :
    SongFailed(t) =>
      /\ EventsOf(t) =
           SetToBag({Event("SongNotFoundError", Track(tasks[t].id, 0, t))})
      /\ JobsOfRequest(t) = {}
      /\ tasks[t].pc = "done"

\* All three ways of failing have happened: not found, not readable, and a
\* failed lookup of a track that is there and readable.
C3_Witness ==
  /\ \E t \in DOMAIN tasks : SongFailed(t) /\ tasks[t].id = 2
  /\ \E t \in DOMAIN tasks :
       SongFailed(t) /\ tasks[t].lookup = "err" /\ tasks[t].id = 1

\* ---------------------------------------------------------------------- C4
\* An Album request whose lookup has returned without an album.
AlbumFailed(t) ==
  /\ IsAlbum(t)
  /\ tasks[t].lookup # "pending"
  /\ \/ tasks[t].lookup = "err"
     \/ ~AlbumExists(tasks[t].id)

\* C4: an Album request whose album is not found or whose lookup fails has
\* sent exactly one AlbumNotFoundError(id) and nothing else, no Queue for any
\* member, and has no job anywhere.
C4_AlbumNotFound ==
  \A t \in DOMAIN tasks :
    AlbumFailed(t) =>
      /\ EventsOf(t) =
           SetToBag({Event("AlbumNotFoundError", Track(tasks[t].id, 0, t))})
      /\ JobsOfRequest(t) = {}
      /\ tasks[t].pc = "done"
      /\ tasks[t].members = <<>>

\* Both ways of failing have happened: an album that is not there, and a
\* failed lookup of an album that is.
C4_Witness ==
  /\ \E t \in DOMAIN tasks : AlbumFailed(t) /\ tasks[t].id = 0
  /\ \E t \in DOMAIN tasks :
       AlbumFailed(t) /\ tasks[t].lookup = "err" /\ tasks[t].id = 1

\* ---------------------------------------------------------------------- C6
\* C6: of an Album request, only the members whose readable flag is true get
\* a Queue event and a job.
C6_OnlyReadableMembers ==
  /\ \A e \in BagToSet(sent) :
       e.type = "Queue" /\ IsAlbum(e.req) => Readable(e.id)
  /\ \A tr \in BagToSet(pushed) : IsAlbum(tr.req) => Readable(tr.id)

\* ---------------------------------------------------------------------- C7
\* The position of member i of album a counted from 1 on the member's disc.
PositionOnDisc(a, i) ==
  Cardinality({j \in 1..i :
                 DiskNumber(AlbumTracks(a)[j]) = DiskNumber(AlbumTracks(a)[i])})

\* The place of track id in the listing of album a, counted from 1.
ListingIndex(a, id) == CHOOSE i \in DOMAIN AlbumTracks(a) : AlbumTracks(a)[i] = id

\* C7, as claimed: the position a member of an Album request is queued with
\* starts over at 1 on every disc.
C7_RestartsPerDisc ==
  \A e \in BagToSet(sent) :
    e.type = "Queue" /\ IsAlbum(e.req) =>
      e.pos = PositionOnDisc(tasks[e.req].id, ListingIndex(tasks[e.req].id, e.id))

\* C7, amended: the position a member of an Album request is queued, pushed
\* and started with is its place in the whole listing of the album, counted
\* from 1 and running on over the discs.
C7_RunsOverDiscs ==
  /\ \A e \in BagToSet(sent) :
       e.type \in ItemEvents /\ IsAlbum(e.req) =>
         e.pos = ListingIndex(tasks[e.req].id, e.id)
  /\ \A tr \in BagToSet(pushed) :
       IsAlbum(tr.req) => tr.pos = ListingIndex(tasks[tr.req].id, tr.id)

\* The first track of the second disc of album 2 has been queued and started.
C7_Witness ==
  \E e \in BagToSet(sent) :
    /\ e.type = "Start" /\ IsAlbum(e.req)
    /\ DiskNumber(e.id) = 2
    /\ PositionOnDisc(tasks[e.req].id, ListingIndex(tasks[e.req].id, e.id)) = 1

\* ---------------------------------------------------------------------- C8
\* C8: the items started and not yet finished or failed are as many as the
\* workers awaiting a download, one item each, and so never more than
\* DOWNLOAD_THREADS, however many jobs wait in the job channel.
C8_WorkerBound ==
  /\ CountSent(LAMBDA e : e.type = "Start")
       <= CountSent(LAMBDA e : e.type \in Terminal) + DOWNLOAD_THREADS
  /\ \A tr \in {Track(e.id, e.pos, e.req) : e \in BagToSet(sent)} :
       NumSent({"Start"}, tr)
         = NumSent(Terminal, tr) + CopiesIn(WorkerAt("fetch", tr), pool)
  /\ NumAt({"init", "recv", "start", "fetch", "dead"}) = DOWNLOAD_THREADS

\* All the workers await a download while another job waits in the channel.
C8_Witness ==
  /\ NumAt({"fetch"}) = DOWNLOAD_THREADS
  /\ download_q # <<>>
  /\ CountSent(LAMBDA e : e.type = "Start")
       = CountSent(LAMBDA e : e.type \in Terminal) + DOWNLOAD_THREADS

\* --------------------------------------------------------------------- C10
\* C10: every job pushed is in the job channel or has been received by one
\* worker, which has started it or is about to; so no job is received twice,
\* none is lost, and an identifier is started at most as often as pushed.
C10_ExactlyOneWorker ==
  /\ \A tr \in BagToSet(pushed) \cup InChannelOrFlight
                 \cup {Track(e.id, e.pos, e.req) :
                         e \in {x \in BagToSet(sent) : x.type = "Start"}} :
       CopiesIn(tr, pushed)
         = NumQueued(tr) + CopiesIn(WorkerAt("start", tr), pool)
             + NumSent({"Start"}, tr)
  /\ \A id \in 1..4 :
       CountSent(LAMBDA e : e.type = "Start" /\ e.id = id)
         <= BagCardinality([tr \in {x \in BagToSet(pushed) : x.id = id} |-> pushed[tr]])

\* Two jobs for the same identifier have been pushed and received, by two
\* workers that now both await the download.
C10_Witness ==
  \E a, b \in BagToSet(pushed) :
    /\ a # b /\ a.id = b.id
    /\ BagIn(WorkerAt("fetch", a), pool)
    /\ BagIn(WorkerAt("fetch", b), pool)

\* ------------------------------------------------------------------ fairness
\* Fair scheduling of the tasks: the executor has, again and again, a thread
\* free for a task that is ready to run.
FairlyScheduled == []<>FreeThread

\* ---------------------------------------------------------------------- C1
\* A Song request whose lookup has returned a readable track.
SongResolved(t) ==
  /\ IsSong(t)
  /\ tasks[t].lookup = "ok"
  /\ TrackExists(tasks[t].id)
  /\ Readable(tasks[t].id)

\* The channel holds Queue, then Start, then one terminal event of track tr,
\* and no other terminal event of it.
Completed(tr) ==
  /\ \E i, j, k \in DOMAIN progress :
       /\ i < j /\ j < k
       /\ progress[i] = Event("Queue", tr)
       /\ progress[j] = Event("Start", tr)
       /\ progress[k].type \in Terminal
       /\ progress[k] = Event(progress[k].type, tr)
  /\ NumSent(Terminal, tr) = 1

\* C1: when every awaited call returns and the tasks are fairly scheduled,
\* every Song request that resolves to a readable track gets, in the end,
\* Queue, then Start, then exactly one of Finish and DownloadError.
C1_SongLifecycle ==
  FairlyScheduled =>
    \A t \in 1..MaxRequests :
      [](SongResolved(t) => <>(IsSong(t) /\ Completed(SongTrack(t))))

\* ---------------------------------------------------------------------- C5
\* An Album request whose lookup has returned the album.
AlbumFound(t) ==
  /\ IsAlbum(t)
  /\ tasks[t].lookup = "ok"
  /\ AlbumExists(tasks[t].id)

\* A member future of the request has failed to resolve.
MemberFailed(t) == \E i \in DOMAIN tasks[t].members : tasks[t].members[i] = "failed"

\* The number of readable members of album a.
ReadableMembers(a) ==
  Cardinality({i \in DOMAIN AlbumTracks(a) : Readable(AlbumTracks(a)[i])})

\* C5: when every awaited call returns and the tasks are fairly scheduled, an
\* Album request whose album is found, with N readable members that all
\* resolve, gets exactly N Queue events and exactly N terminal events in the
\* end, and never more.
C5_AlbumLifecycle ==
  FairlyScheduled =>
  \A t \in 1..MaxRequests :
    /\ [](AlbumFound(t) =>
            /\ NumOfRequest({"Queue"}, t) <= ReadableMembers(tasks[t].id)
            /\ NumOfRequest(Terminal, t) <= ReadableMembers(tasks[t].id))
    /\ [](AlbumFound(t) =>
            <>(/\ IsAlbum(t)
               /\ \/ MemberFailed(t)
                  \/ /\ NumOfRequest({"Queue"}, t) = ReadableMembers(tasks[t].id)
                     /\ NumOfRequest(Terminal, t) = ReadableMembers(tasks[t].id)))

\* ---------------------------------------------------------------------- C9
\* The tracks a job of some request can carry.
JobTracks ==
  {Track(id, CatalogPosition(id), t) :
     id \in {x \in SongIds : TrackExists(x)}, t \in 1..MaxRequests}
    \cup {Track(AlbumTracks(a)[i], track_position_in_album(i - 1), t) :
            a \in {x \in AlbumIds : AlbumExists(x)}, i \in 1..2,
            t \in 1..MaxRequests}

\* C9: the worker whose download fails sends DownloadError and is back at
\* recv(); and, when every awaited call returns and the tasks are fairly
\* scheduled, every other job that is in the job channel or with a worker
\* once a download has failed reaches its own terminal event.
C9_Isolation ==
  /\ [][CountSent(LAMBDA e : e.type = "DownloadError")'
          > CountSent(LAMBDA e : e.type = "DownloadError")
        => /\ NumAt({"recv"})' = NumAt({"recv"}) + 1
           /\ NumAt({"fetch"})' + 1 = NumAt({"fetch"})
           /\ NumAt({"dead"})' = NumAt({"dead"})]_vars
  /\ FairlyScheduled =>
       \A b \in JobTracks :
         []((/\ \E a \in JobTracks \ {b} : NumSent({"DownloadError"}, a) > 0
             /\ b \in InChannelOrFlight)
            => <>(NumSent(Terminal, b) > 0))

\* The download of one job of an album has failed while the other job of the
\* album was with a worker or in the job channel, and the other job has
\* finished since.
C9_Witness ==
  \E k, m \in DOMAIN progress :
    /\ k < m
    /\ progress[k].type = "DownloadError"
    /\ progress[m].type = "Finish"
    /\ progress[m].id # progress[k].id
    /\ \E j \in 1..(k - 1) : progress[j] = [progress[m] EXCEPT !.type = "Queue"]

\* --------------------------------------------------------------------- C11
\* C11: for any number of executor threads, also with all the workers
\* waiting on an empty job channel, every Song request gets its Queue or its
\* SongNotFoundError in the end: a waiting worker holds no thread.
C11_LookupNotStarved ==
  \A t \in 1..MaxRequests :
    [](IsSong(t) => <>(NumOfRequest({"Queue", "SongNotFoundError"}, t) > 0))

\* --------------------------------------------------------------------- C12
\* The forbidden characters, as the claim lists them.
Forbidden == {"<", ">", ":", "\"", "/", "\\", "|", "?", "*"}

\* The places of name that hold a character that is not forbidden, and the
\* k-th of them from the left.
Kept(name) == {i \in DOMAIN name : name[i] \notin Forbidden}

NthKept(name, k) ==
  CHOOSE i \in Kept(name) : Cardinality({j \in Kept(name) : j < i}) = k - 1

\* C12: the result of replace_illegal_characters is the name with every
\* forbidden character deleted: it holds the other characters, all of them,
\* in their order, nothing else, no forbidden character; a name of forbidden
\* characters only gives the empty string; the two names of the test give
\* what the test expects.
C12_DeletesForbidden ==
  out # <<>> =>
    /\ Len(out[1]) = Cardinality(Kept(song_title))
    /\ \A k \in DOMAIN out[1] : out[1][k] = song_title[NthKept(song_title, k)]
    /\ \A k \in DOMAIN out[1] : out[1][k] \notin Forbidden
    /\ (Kept(song_title) = {} => out[1] = <<>>)
    /\ (song_title = ThunderstruckName =>
          out[1] = SubSeq(ThunderstruckName, 1, 2) \o SubSeq(ThunderstruckName, 4, 25))
    /\ (song_title = TestName => out[1] = SubSeq(TestName, 10, 20))

\* A name with a forbidden character between two different legal ones has
\* been sanitized and has come out as the two legal ones.
C12_Witness ==
  /\ out # <<>>
  /\ \E i, j, k \in DOMAIN song_title :
       /\ i < j /\ j < k
       /\ song_title[i] \notin Forbidden
       /\ song_title[j] \in Forbidden
       /\ song_title[k] \notin Forbidden
       /\ song_title[i] # song_title[k]
       /\ out[1] = <<song_title[i], song_title[k]>>

\* --------------------------------------------------------------------- C13
\* C13: replace_illegal_characters applied to its own result returns that
\* result.
C13_Idempotent ==
  \A n \in DOMAIN out : n > 1 => out[n] = out[1]

\* A name with two forbidden characters and a legal one has been sanitized
\* twice.
C13_Witness ==
  /\ Len(out) >= 2
  /\ Cardinality({i \in DOMAIN song_title : song_title[i] \in Forbidden}) >= 2
  /\ out[1] # <<>>

\* --------------------------------------------------------------------- C14
\* The event the consumer takes in the step.
Taken == progress[received + 1]

\* C14: every event the consumer folds changes the queue and the log as the
\* table says: Queue adds an Inactive item and logs nothing; Start turns the
\* items of that id to Downloading, leaves the others, and logs nothing;
\* Finish and DownloadError take one item of that id out and log one Success,
\* one Error; the two not-found events leave the queue and log one Error.
C14_FoldFollowsTable ==
  [][received' = received + 1 =>
       /\ Taken.type = "Queue" =>
            /\ queue' = Append(queue, QueueItem(TrackOf(Taken), Inactive))
            /\ logs' = logs
       /\ Taken.type = "Start" =>
            /\ Len(queue') = Len(queue)
            /\ \E i \in DOMAIN queue : queue[i].song.id = Taken.id
            /\ \A i \in DOMAIN queue :
                 /\ queue'[i].song = queue[i].song
                 /\ queue'[i].status =
                      IF queue[i].song.id = Taken.id THEN Downloading
                      ELSE queue[i].status
            /\ logs' = logs
       /\ Taken.type \in Terminal =>
            /\ Len(queue') + 1 = Len(queue)
            /\ \E i \in DOMAIN queue :
                 /\ queue[i].song.id = Taken.id
                 /\ queue[i].status = Downloading
                 /\ queue' = SubSeq(queue, 1, i - 1) \o SubSeq(queue, i + 1, Len(queue))
            /\ Len(logs') = Len(logs) + 1
            /\ SubSeq(logs', 1, Len(logs)) = logs
            /\ logs'[Len(logs')].kind = IF Taken.type = "Finish" THEN "Success" ELSE "Error"
            /\ logs'[Len(logs')].id = Taken.id
       /\ Taken.type \in {"SongNotFoundError", "AlbumNotFoundError"} =>
            /\ queue' = queue
            /\ Len(logs') = Len(logs) + 1
            /\ SubSeq(logs', 1, Len(logs)) = logs
            /\ logs'[Len(logs')].kind = "Error"
            /\ logs'[Len(logs')].id = Taken.id
       /\ app_pc' = "running"]_vars

\* The consumer has folded every event of a run with a started item and an
\* album that was not found: the log holds a Success and an Error, and the
\* queue is empty again.
C14_Witness ==
  /\ received = Len(progress)
  /\ queue = <<>>
  /\ \E i, j \in DOMAIN logs : logs[i].kind = "Success" /\ logs[j].kind = "Error"
  /\ \E k \in DOMAIN progress : progress[k].type = "Start"
  /\ \E k \in DOMAIN progress : progress[k].type = "AlbumNotFoundError"

\* --------------------------------------------------------------------- C15
\* C15: all the DOWNLOAD_THREADS workers are alive in every reachable state:
\* each is starting up, waiting for a job or working on one, and none has
\* left its loop, whatever has failed.
C15_WorkersStayAlive ==
  /\ NumAt({"dead"}) = 0
  /\ NumAt({"init", "recv", "start", "fetch"}) = DOWNLOAD_THREADS

\* --------------------------------------------------------------------- C16
\* A send of request t on the job channel has failed.
SendFailed(t) ==
  \/ tasks[t].kind = "Song" /\ tasks[t].pc = "panicked"
  \/ \E i \in DOMAIN tasks[t].members : tasks[t].members[i] = "lost"

\* C16: in every reachable state the job channel has a live receiver and the
\* progress channel its reader, and no send has failed: no dispatch task has
\* panicked on "Channel should be open.".
C16_ChannelsStayOpen ==
  /\ LiveReceivers > 0
  /\ \A t \in DOMAIN tasks : ~SendFailed(t)

\* --------------------------------------------------------------------- C17
\* An event that reports something else than the life of an item, sent for
\* request t.
NumReports(t) == NumOfRequest({"SongNotFoundError", "AlbumNotFoundError"}, t)

\* C17: when a member of a found album fails to resolve, the failure is
\* reported by an event, no job is made for that member, and the dispatch is
\* not unwound: the other members are still pending, queued or pushed.
C17_MemberFailureReported ==
  \A t \in DOMAIN tasks :
    \A i \in DOMAIN tasks[t].members :
      tasks[t].members[i] = "failed" =>
        /\ NumReports(t) > 0
        /\ MemberTrack(t, i) \notin JobsOfRequest(t)
        /\ tasks[t].pc # "panicked"

\* --------------------------------------------------------------------- C18
\* The tracks of the jobs pushed and of the events sent so far.
SeenTracks ==
  BagToSet(pushed)
    \cup {TrackOf(e) : e \in {x \in BagToSet(sent) : x.type \in ItemEvents}}

\* C18: a job is pushed once and never again; once received it is started
\* once; it gets at most one terminal event, so never Finish and
\* DownloadError both; and after its terminal event it is neither in the job
\* channel nor with a worker.
C18_NoRetry ==
  \A tr \in SeenTracks :
    /\ CopiesIn(tr, pushed) <= 1
    /\ NumSent({"Start"}, tr) <= 1
    /\ NumSent(Terminal, tr) <= 1
    /\ (CopiesIn(tr, pushed) = 1 /\ tr \notin InChannelOrFlight
          => NumSent({"Start"}, tr) = 1)
    /\ (NumSent(Terminal, tr) = 1
          => /\ NumSent({"Start"}, tr) = 1
             /\ tr \notin InChannelOrFlight)

\* A download has failed, and later the requests are all dispatched, the job
\* channel is empty and every worker left is waiting in recv().
C18_Witness ==
  /\ \E tr \in SeenTracks : NumSent({"DownloadError"}, tr) = 1
  /\ todo = <<>>
  /\ \A t \in DOMAIN tasks : tasks[t].pc = "done"
  /\ download_q = <<>>
  /\ NumAt({"recv"}) > 0
  /\ NumAt({"init", "start", "fetch"}) = 0

\* --------------------------------------------------------------------- C19
\* C19: when the tasks are fairly scheduled and fewer than DOWNLOAD_THREADS
\* downloads hang, a job that is in the job channel while a download hangs
\* is received and reaches its terminal event in the end, unless its own
\* download hangs.
C19_HangOccupiesOneWorker ==
  FairlyScheduled =>
    \A b \in JobTracks :
      [](/\ NumQueued(b) > 0
         /\ NumAt({"hung"}) > 0
         => <>(\/ NumSent(Terminal, b) > 0
               \/ BagIn(WorkerAt("hung", b), pool)
               \/ NumAt({"hung"}) >= DOWNLOAD_THREADS))

\* --------------------------------------------------------------------- C20
\* C20: the job channel is first in, first out: a step that changes it puts
\* one job at its end or takes its oldest job, and the job a worker receives
\* is the oldest of the channel; so no job is received before one that was
\* pushed earlier.
C20_Fifo ==
  [][/\ download_q' # download_q =>
          \/ \E tr \in BagToSet(pushed') : download_q' = Append(download_q, tr)
          \/ download_q # <<>> /\ download_q' = Tail(download_q)
     /\ NumAt({"start"})' > NumAt({"start"}) =>
          /\ download_q # <<>>
          /\ download_q' = Tail(download_q)
          /\ CopiesIn(WorkerAt("start", Head(download_q)), pool')
               = CopiesIn(WorkerAt("start", Head(download_q)), pool) + 1]_vars

\* A worker has received job a and job b is left in the channel, on a single
\* executor thread: the worker has kept the thread since it called recv(), so
\* both jobs were in the channel, a before b, when it received.
C20_Witness ==
  /\ threads = 1
  /\ \E a, b \in BagToSet(pushed) :
       /\ a # b
       /\ BagIn(WorkerAt("start", a), pool)
       /\ download_q = <<b>>

\* --------------------------------------------------------------------- C21
\* The Queue events sent for the members of Album request t.
QueuedOf(t) == {e \in BagToSet(sent) : e.type = "Queue" /\ e.req = t}

\* C21: whatever the order in which the member resolutions of an Album
\* request return, each member is queued with the position of its own place
\* in the listing: the listing holds that member at that place, no two
\* members of the request are queued with the same position, and the job
\* pushed for a member carries the position it was queued with.
C21_PositionFixedAtDispatch ==
  \A t \in DOMAIN tasks :
    IsAlbum(t) =>
      /\ \A e \in QueuedOf(t) :
           /\ e.pos \in DOMAIN AlbumTracks(tasks[t].id)
           /\ AlbumTracks(tasks[t].id)[e.pos] = e.id
           /\ sent[e] = 1
      /\ \A e1, e2 \in QueuedOf(t) : e1 # e2 => e1.pos # e2.pos /\ e1.id # e2.id
      /\ \A tr \in BagToSet(pushed) :
           tr.req = t => Event("Queue", tr) \in QueuedOf(t)

\* The members of an Album request have returned in the reverse of the order
\* of the listing: the later member is queued first, and both are pushed.
C21_Witness ==
  \E j, k \in DOMAIN progress :
    /\ j < k
    /\ progress[j].type = "Queue" /\ progress[k].type = "Queue"
    /\ progress[j].req = progress[k].req
    /\ IsAlbum(progress[j].req)
    /\ progress[j].pos > progress[k].pos
    /\ BagIn(TrackOf(progress[j]), pushed)
    /\ BagIn(TrackOf(progress[k]), pushed)

\* --------------------------------------------------------------------- C22
\* The number of the events the consumer has folded that are of one of the
\* types.
NumFolded(types) ==
  Cardinality({k \in 1..received : progress[k].type \in types})

\* The items of the queue with status Downloading.
NumDownloading ==
  Cardinality({i \in DOMAIN queue : queue[i].status = Downloading})

\* C22: after the fold of any prefix of the stream, the queue has at most as
\* many Downloading items as the prefix has items started and not yet
\* finished or failed, and so at most DOWNLOAD_THREADS, also when an
\* identifier is requested more than once.
C22_DownloadingOnlyIfStarted ==
  /\ NumDownloading + NumFolded(Terminal) <= NumFolded({"Start"})
  /\ NumDownloading <= DOWNLOAD_THREADS

\* --------------------------------------------------------------------- C23
\* C23: whenever the consumer folds a Finish or a DownloadError its queue
\* holds an item of that track's id, so the lookup that expects "Track
\* should be in queue." does not fail and the consumer never panics, also
\* with an identifier queued by two requests.
C23_TrackIsInQueue ==
  [][received' = received + 1 /\ Taken.type \in Terminal =>
       /\ \E i \in DOMAIN queue : queue[i].song.id = Taken.id
       /\ Len(queue') + 1 = Len(queue)
       /\ app_pc' = "running"]_vars

\* The consumer has folded the terminal events of two jobs of one identifier,
\* one of a Song request and one of a member of an Album request.
C23_Witness ==
  \E j, k \in 1..received :
    /\ j < k
    /\ progress[j].type \in Terminal /\ progress[k].type \in Terminal
    /\ progress[j].id = progress[k].id
    /\ IsSong(progress[j].req) # IsSong(progress[k].req)
    /\ app_pc = "running"
====
